---- MODULE Spec2Model ----
(***************************************************************************)
(* Shortest-path engines of the graph visualizer: the hooks useDijkstra,   *)
(* useFloydWarshall, useJohnson, useSlowAPSP and useFasterAPSP over the    *)
(* node map and edge list of useGraph.                                     *)
(*                                                                         *)
(* Conventions.  A JS Map/Set keeps insertion order, so the node map and   *)
(* the visited/unvisited sets are sequences without repetition.  Matrices  *)
(* are sequences of rows; the code's 0-based index i is row i + 1.  Step   *)
(* descriptions (display strings) are not modelled.                        *)
(***************************************************************************)
EXTENDS Integers, Sequences, FiniteSets, TLC

VARIABLES
    nodes,              \* useGraph: keys of the node Map, in insertion order
    edges,              \* useGraph: the edge list
    distances,          \* useDijkstra state
    visited,
    unvisited,
    currentNode,
    algorithmSteps,
    currentStepIndex,
    isRunning,
    dijkstraTimers,     \* pending setTimeout callbacks of runDijkstra (FIFO)
    floydMatrix,        \* useFloydWarshall state
    floydSteps,
    floydStepIndex,
    floydIsRunning,
    floydTimers,        \* pending setTimeout callbacks of runFloydWarshall
    johnsonMatrix,      \* useJohnson state
    slowAPSPMatrix,     \* useSlowAPSP state
    fasterAPSPMatrix    \* useFasterAPSP state

graphVars    == <<nodes, edges>>
dijkstraVars == <<distances, visited, unvisited, currentNode, algorithmSteps,
                  currentStepIndex, isRunning, dijkstraTimers>>
floydVars    == <<floydMatrix, floydSteps, floydStepIndex, floydIsRunning,
                  floydTimers>>
apspVars     == <<johnsonMatrix, slowAPSPMatrix, fasterAPSPMatrix>>
vars         == <<graphVars, dijkstraVars, floydVars, apspVars>>

(***************************************************************************)
(* Bounds of the model.                                                    *)
(***************************************************************************)
MaxNodes   == 3     \* node names are the first MaxNodes of NodeNames
MaxEdges   == 2     \* length of the edge list
MaxPending == 1     \* pending timers per hook

\* Node names in lexicographic order (the order Array.sort() gives strings).
NodeNames == <<"A", "B", "C", "D", "E">>
NodeIds   == {NodeNames[x] : x \in 1..MaxNodes}

\* Edge weights: small ones of either sign, and of either sign one so
\* large that two of them add up to more than INF in magnitude.
Weights == {-600000, -1, 1, 600000}

INF      == 999999
\* JS Infinity.  The engines never add to it; it is only compared, and it
\* exceeds every sum of at most MaxNodes + 1 weights.
Infinity == 2000000000

NULL     == "null"
NoMatrix == << >>   \* null matrix; a produced matrix has at least one row

Range(s) == {s[x] : x \in DOMAIN s}

Min2(a, b) == IF b < a THEN b ELSE a

\* The function f, built element by element (an array or Map literal).
Eager(f) == f @@ << >>

(***************************************************************************)
(* Array.from(nodes.keys()).sort() and Array.indexOf.                      *)
(***************************************************************************)
SortedNodeList(ns) == SelectSeq(NodeNames, LAMBDA x : x \in Range(ns))

IndexOf(list, x) ==
    IF x \in Range(list)
    THEN (CHOOSE p \in DOMAIN list : list[p] = x) - 1
    ELSE -1

\* dist[i][j] = v on a matrix, i and j 0-based.
SetCell(m, i, j, v) == [m EXCEPT ![i + 1][j + 1] = v]

Cell(m, i, j) == m[i + 1][j + 1]

(***************************************************************************)
(* The direct weight matrix: INF everywhere, 0 on the diagonal, then every *)
(* edge in list order writes its weight into [from][to] when both ends are *)
(* in the node list.  The same code opens generateFloydWarshallSteps,      *)
(* runSlowAPSP and runFasterAPSP.                                          *)
(***************************************************************************)
\* Mutant: the edge list is written in reverse order (first write wins).
RECURSIVE SetEdgeWeightsFirstWins(_, _, _, _)
SetEdgeWeightsFirstWins(dist, nodeList, es, p) ==
    IF p > Len(es) THEN dist
    ELSE LET q == Len(es) + 1 - p
             i == IndexOf(nodeList, es[q].from)
             j == IndexOf(nodeList, es[q].to)
         IN  SetEdgeWeightsFirstWins(IF i # -1 /\ j # -1
                                       THEN SetCell(dist, i, j, es[q].weight)
                                       ELSE dist,
                                     nodeList, es, p + 1)

RECURSIVE SetEdgeWeights(_, _, _, _)
SetEdgeWeights(dist, nodeList, es, p) ==
    IF p > Len(es) THEN dist
    ELSE LET i == IndexOf(nodeList, es[p].from)
             j == IndexOf(nodeList, es[p].to)
         IN  SetEdgeWeights(IF i # -1 /\ j # -1
                              THEN SetCell(dist, i, j, es[p].weight)
                              ELSE dist,
                            nodeList, es, p + 1)

InitialMatrix(nodeList, es) ==
    LET n == Len(nodeList)
        d == Eager([i \in 1..n |->
                      Eager([j \in 1..n |-> IF i = j THEN 0 ELSE INF])])
    IN  SetEdgeWeights(d, nodeList, es, 1)

(***************************************************************************)
(* useFloydWarshall.generateFloydWarshallSteps.  A step is                 *)
(* [k, i, j, matrix, updated]; the matrix is a copy (a value here).        *)
(***************************************************************************)
FloydStep(sk, si, sj, snapshot, flag) ==
    [k |-> sk, i |-> si, j |-> sj, matrix |-> snapshot, updated |-> flag]

\* Mutant: the first node is never used as the intermediate vertex.
FloydRelaxesSkipFirstK(dist, k, i, j) ==
    /\ k > 0
    /\ Cell(dist, i, k) + Cell(dist, k, j) < Cell(dist, i, j)

\* The test of the innermost loop body.
FloydRelaxes(dist, k, i, j) ==
    Cell(dist, i, k) + Cell(dist, k, j) < Cell(dist, i, j)

\* for (j ...): the innermost loop; yields dist and steps.
RECURSIVE FloydLoopJ(_, _, _, _, _, _)
FloydLoopJ(dist, steps, k, i, j, n) ==
    IF j >= n THEN [dist |-> dist, steps |-> steps]
    ELSE IF FloydRelaxes(dist, k, i, j)
         THEN LET d2 == SetCell(dist, i, j, Cell(dist, i, k) + Cell(dist, k, j))
              IN  FloydLoopJ(d2, Append(steps, FloydStep(k, i, j, d2, TRUE)),
                             k, i, j + 1, n)
    ELSE FloydLoopJ(dist, steps, k, i, j + 1, n)

\* for (i ...)
RECURSIVE FloydLoopI(_, _, _, _, _)
FloydLoopI(dist, steps, k, i, n) ==
    IF i >= n THEN [dist |-> dist, steps |-> steps]
    ELSE LET r == FloydLoopJ(dist, steps, k, i, 0, n)
         IN  FloydLoopI(r.dist, r.steps, k, i + 1, n)

\* Mutant: no step is pushed after a k that changed no cell.
RECURSIVE FloydLoopSilentK(_, _, _, _)
FloydLoopSilentK(dist, steps, k, n) ==
    IF k >= n THEN steps
    ELSE LET r == FloydLoopI(dist, steps, k, 0, n)
         IN  FloydLoopSilentK(r.dist,
                 IF r.steps = steps THEN steps
                 ELSE Append(r.steps, FloydStep(k, -1, -1, r.dist, FALSE)),
                 k + 1, n)

\* for (k ...), and the step pushed after each k.
RECURSIVE FloydLoop(_, _, _, _)
FloydLoop(dist, steps, k, n) ==
    IF k >= n THEN steps
    ELSE LET r == FloydLoopI(dist, steps, k, 0, n)
         IN  FloydLoop(r.dist, Append(r.steps, FloydStep(k, -1, -1, r.dist, FALSE)),
                       k + 1, n)

generateFloydWarshallSteps(ns, es) ==
    IF Len(ns) = 0 THEN << >>
    ELSE LET nodeList == SortedNodeList(ns)
             dist     == InitialMatrix(nodeList, es)
         IN  FloydLoop(dist, <<FloydStep(-1, -1, -1, dist, FALSE)>>,
                       0, Len(nodeList))

(***************************************************************************)
(* useSlowAPSP.runSlowAPSP: n - 1 rounds, each composing L with itself.    *)
(***************************************************************************)
\* The k loop of one cell, newL[i][j] starting at cur.
RECURSIVE SlowCell(_, _, _, _, _)
SlowCell(L, i, j, k, cur) ==
    IF k >= Len(L) THEN cur
    ELSE SlowCell(L, i, j, k + 1,
                  IF Cell(L, i, k) + Cell(L, k, j) < cur
                  THEN Cell(L, i, k) + Cell(L, k, j)
                  ELSE cur)

SlowRound(L) ==
    Eager([i \in 1..Len(L) |->
        Eager([j \in 1..Len(L) |-> SlowCell(L, i - 1, j - 1, 0, L[i][j])])])

\* for (r = 1; r < n; r++) L = newL; done counts the rounds executed.
RECURSIVE SlowRoundsCounted(_, _, _, _)
SlowRoundsCounted(L, r, n, done) ==
    IF r < n THEN SlowRoundsCounted(SlowRound(L), r + 1, n, done + 1)
    ELSE [matrix |-> L, rounds |-> done]

SlowRounds(L, r, n) == SlowRoundsCounted(L, r, n, 0).matrix

SlowAPSPMatrix(ns, es) ==
    LET nodeList == SortedNodeList(ns)
    IN  SlowRounds(InitialMatrix(nodeList, es), 1, Len(nodeList))

(***************************************************************************)
(* useFasterAPSP.matrixMultiply and runFasterAPSP.                         *)
(***************************************************************************)
RECURSIVE MultiplyCell(_, _, _, _, _, _)
MultiplyCell(A, B, i, j, k, cur) ==
    IF k >= Len(A) THEN cur
    ELSE MultiplyCell(A, B, i, j, k + 1, Min2(cur, Cell(A, i, k) + Cell(B, k, j)))

matrixMultiply(A, B, inf) ==
    Eager([i \in 1..Len(A) |->
        Eager([j \in 1..Len(A) |-> MultiplyCell(A, B, i - 1, j - 1, 0, inf)])])

\* Mutant: the loop stops as soon as the next r would reach n - 1.
RECURSIVE FasterLoopCountedStopsEarly(_, _, _, _)
FasterLoopCountedStopsEarly(L, r, n, done) ==
    IF 2 * r < n - 1
    THEN FasterLoopCountedStopsEarly(matrixMultiply(L, L, INF), 2 * r, n, done + 1)
    ELSE [matrix |-> L, squarings |-> done]

\* let r = 1; while (r < n - 1) { L = matrixMultiply(L, L, INF); r = 2 * r };
\* done counts the squarings executed.
RECURSIVE FasterLoopCounted(_, _, _, _)
FasterLoopCounted(L, r, n, done) ==
    IF r < n - 1
    THEN FasterLoopCounted(matrixMultiply(L, L, INF), 2 * r, n, done + 1)
    ELSE [matrix |-> L, squarings |-> done]

FasterLoop(L, r, n) == FasterLoopCounted(L, r, n, 0).matrix

FasterAPSPMatrix(ns, es) ==
    LET nodeList == SortedNodeList(ns)
    IN  FasterLoop(InitialMatrix(nodeList, es), 1, Len(nodeList))

(***************************************************************************)
(* useDijkstra.buildAdjacencyList: a Map from node to its list of          *)
(* {node, weight}, here a function whose domain is the set of keys.  An    *)
(* edge whose from is no key yet adds the key (get(...) || []).            *)
(***************************************************************************)
\* Mutant: a neighbor is put in front of the list instead of behind it.
RECURSIVE AddNeighborsInFront(_, _, _)
AddNeighborsInFront(adjacencyList, es, p) ==
    IF p > Len(es) THEN adjacencyList
    ELSE LET edge      == es[p]
             neighbors == IF edge.from \in DOMAIN adjacencyList
                          THEN adjacencyList[edge.from] ELSE << >>
             pushed    == <<[node |-> edge.to, weight |-> edge.weight]>> \o neighbors
         IN  AddNeighborsInFront(
                 Eager([x \in DOMAIN adjacencyList \cup {edge.from} |->
                     IF x = edge.from THEN pushed ELSE adjacencyList[x]]),
                 es, p + 1)

RECURSIVE AddNeighbors(_, _, _)
AddNeighbors(adjacencyList, es, p) ==
    IF p > Len(es) THEN adjacencyList
    ELSE LET edge      == es[p]
             neighbors == IF edge.from \in DOMAIN adjacencyList
                          THEN adjacencyList[edge.from] ELSE << >>
             pushed    == Append(neighbors, [node |-> edge.to, weight |-> edge.weight])
         IN  AddNeighbors(Eager([x \in DOMAIN adjacencyList \cup {edge.from} |->
                              IF x = edge.from THEN pushed ELSE adjacencyList[x]]),
                          es, p + 1)

buildAdjacencyList(ns, es) ==
    AddNeighbors(Eager([x \in Range(ns) |-> << >>]), es, 1)

\* Mutant: with a start node that is no key, the first key starts at 0.
InitialDistancesDefaultSource(ns, startNode) ==
    Eager([x \in Range(ns) |->
        IF x = startNode \/ (startNode \notin Range(ns) /\ x = ns[1])
        THEN 0 ELSE Infinity])

\* tempDistances after the initialisation loop.
InitialDistances(ns, startNode) ==
    Eager([x \in Range(ns) |-> IF x = startNode THEN 0 ELSE Infinity])

\* Set.delete on an insertion-ordered set.
SetDelete(s, x) == SelectSeq(s, LAMBDA y : y # x)

\* Mutant: a node of equal distance met later replaces the minimum.
RECURSIVE MinScanLastWins(_, _, _, _, _)
MinScanLastWins(dist, unv, p, minNode, minDistance) ==
    IF p > Len(unv) THEN [minNode |-> minNode, minDistance |-> minDistance]
    ELSE IF dist[unv[p]] <= minDistance
         THEN MinScanLastWins(dist, unv, p + 1, unv[p], dist[unv[p]])
         ELSE MinScanLastWins(dist, unv, p + 1, minNode, minDistance)

\* The scan for the unvisited node of least distance: the first strictly
\* smaller one wins.
RECURSIVE MinScan(_, _, _, _, _)
MinScan(dist, unv, p, minNode, minDistance) ==
    IF p > Len(unv) THEN [minNode |-> minNode, minDistance |-> minDistance]
    ELSE IF dist[unv[p]] < minDistance
         THEN MinScan(dist, unv, p + 1, unv[p], dist[unv[p]])
         ELSE MinScan(dist, unv, p + 1, minNode, minDistance)

\* Mutant: only a neighbor with no distance yet is ever relaxed.
RelaxesFirstReachOnly(dist, unv, minNode, nb) ==
    /\ nb.node \in Range(unv)
    /\ dist[nb.node] = Infinity

\* Mutant: an unvisited neighbor is overwritten without comparing.
RelaxesWithoutCompare(dist, unv, minNode, nb) ==
    nb.node \in Range(unv)

\* Mutant: a visited neighbor is relaxed too.
RelaxesVisitedToo(dist, unv, minNode, nb) ==
    /\ nb.node \in DOMAIN dist
    /\ dist[minNode] + nb.weight < dist[nb.node]

\* The test that guards a relaxation of neighbor nb of minNode.
Relaxes(dist, unv, minNode, nb) ==
    /\ nb.node \in Range(unv)
    /\ dist[minNode] + nb.weight < dist[nb.node]

(***************************************************************************)
(* useDijkstra.generateDijkstraSteps.                                      *)
(***************************************************************************)
\* Mutant: the select step is recorded after the move to visited.
SelectStepAfterMove(selected, ds, us, vs) ==
    [type |-> "select", node |-> selected, distances |-> ds,
     unvisited |-> SetDelete(us, selected), visited |-> Append(vs, selected)]

SelectStep(selected, ds, us, vs) ==
    [type |-> "select", node |-> selected,
     distances |-> ds, unvisited |-> us, visited |-> vs]

\* Mutant: the update step records the new distance as the old one.
UpdateStepOldIsNew(selected, nbNode, od, nd, ds, us, vs) ==
    [type |-> "update", node |-> selected, neighbor |-> nbNode,
     oldDistance |-> nd, newDistance |-> nd,
     distances |-> ds, unvisited |-> us, visited |-> vs]

UpdateStep(selected, nbNode, od, nd, ds, us, vs) ==
    [type |-> "update", node |-> selected, neighbor |-> nbNode,
     oldDistance |-> od, newDistance |-> nd,
     distances |-> ds, unvisited |-> us, visited |-> vs]

\* for (const neighbor of neighbors) ...; yields tempDistances and steps.
RECURSIVE RelaxNeighbors(_, _, _, _, _, _, _)
RelaxNeighbors(neighbors, p, minNode, dist, unv, vis, steps) ==
    IF p > Len(neighbors) THEN [distances |-> dist, steps |-> steps]
    ELSE LET nb == neighbors[p]
         IN  IF Relaxes(dist, unv, minNode, nb)
             THEN LET newDistance == dist[minNode] + nb.weight
                      oldDistance == dist[nb.node]
                      d2          == [dist EXCEPT ![nb.node] = newDistance]
                  IN  RelaxNeighbors(neighbors, p + 1, minNode, d2, unv, vis,
                          Append(steps, UpdateStep(minNode, nb.node, oldDistance,
                                                   newDistance, d2, unv, vis)))
             ELSE RelaxNeighbors(neighbors, p + 1, minNode, dist, unv, vis, steps)

\* while (tempUnvisited.size > 0) ...
RECURSIVE DijkstraLoop(_, _, _, _, _)
DijkstraLoop(adjacencyList, dist, unv, vis, steps) ==
    IF Len(unv) = 0 THEN steps
    ELSE LET m == MinScan(dist, unv, 1, NULL, Infinity)
         IN  IF m.minNode = NULL \/ m.minDistance = Infinity THEN steps
             ELSE LET unv2 == SetDelete(unv, m.minNode)
                      vis2 == Append(vis, m.minNode)
                      r    == RelaxNeighbors(adjacencyList[m.minNode], 1, m.minNode,
                                  dist, unv2, vis2,
                                  Append(steps, SelectStep(m.minNode, dist, unv, vis)))
                  IN  DijkstraLoop(adjacencyList, r.distances, unv2, vis2, r.steps)

generateDijkstraSteps(ns, es, startNode) ==
    DijkstraLoop(buildAdjacencyList(ns, es), InitialDistances(ns, startNode),
                 ns, << >>, << >>)

(***************************************************************************)
(* useJohnson.dijkstraSingleSource: the same loop with no step recording   *)
(* and no visited set, and runJohnson.                                     *)
(***************************************************************************)
RECURSIVE SingleSourceRelax(_, _, _, _, _)
SingleSourceRelax(neighbors, p, minNode, dist, unv) ==
    IF p > Len(neighbors) THEN dist
    ELSE SingleSourceRelax(neighbors, p + 1, minNode,
             IF Relaxes(dist, unv, minNode, neighbors[p])
             THEN [dist EXCEPT ![neighbors[p].node] = dist[minNode] + neighbors[p].weight]
             ELSE dist,
             unv)

\* The loop's state when it ends: the distances it returns and the nodes
\* it never took out of unvisited.
RECURSIVE SingleSourceLoop(_, _, _)
SingleSourceLoop(adjacencyList, dist, unv) ==
    IF Len(unv) = 0 THEN [distances |-> dist, unvisited |-> unv]
    ELSE LET m == MinScan(dist, unv, 1, NULL, Infinity)
         IN  IF m.minNode = NULL \/ m.minDistance = Infinity
             THEN [distances |-> dist, unvisited |-> unv]
             ELSE LET unv2 == SetDelete(unv, m.minNode)
                  IN  SingleSourceLoop(adjacencyList,
                          SingleSourceRelax(adjacencyList[m.minNode], 1, m.minNode,
                                            dist, unv2),
                          unv2)

\* Mutant: the distances are returned as initialised, nothing relaxed.
dijkstraSingleSourceNoLoop(ns, es, source) ==
    InitialDistances(ns, source)

dijkstraSingleSource(ns, es, source) ==
    SingleSourceLoop(buildAdjacencyList(ns, es), InitialDistances(ns, source), ns).distances

\* Mutant: a row is copied without replacing Infinity by INF.
JohnsonMatrixKeepsInfinity(ns, es) ==
    LET nodeList == SortedNodeList(ns)
        n        == Len(nodeList)
    IN  Eager([i \in 1..n |->
            LET singleSourceDist == dijkstraSingleSource(ns, es, nodeList[i])
            IN  Eager([j \in 1..n |-> singleSourceDist[nodeList[j]]])])

JohnsonMatrix(ns, es) ==
    LET nodeList == SortedNodeList(ns)
        n        == Len(nodeList)
    IN  Eager([i \in 1..n |->
            LET singleSourceDist == dijkstraSingleSource(ns, es, nodeList[i])
            IN  Eager([j \in 1..n |->
                    LET distance == singleSourceDist[nodeList[j]]
                    IN  IF distance = Infinity THEN INF ELSE distance])])

(***************************************************************************)
(* Initial states.  The hooks start empty; the graph is any node map and   *)
(* edge list within the bounds (an edge may name a node that is not in     *)
(* the map, repeat an ordered pair, or be a self-loop).                    *)
(***************************************************************************)
RECURSIVE SeqsUpTo(_, _)
SeqsUpTo(S, n) ==
    IF n = 0 THEN {<< >>}
    ELSE LET shorter == SeqsUpTo(S, n - 1)
         IN  shorter \cup {Append(q, x) : q \in shorter, x \in S}

NoRepeat(q) == \A a, b \in DOMAIN q : a # b => q[a] # q[b]

NodeSeqs  == {q \in SeqsUpTo(NodeIds, MaxNodes) : NoRepeat(q)}
EdgeSet   == [from : NodeIds, to : NodeIds, weight : Weights]
EdgeSeqs  == SeqsUpTo(EdgeSet, MaxEdges)
Modes     == {"step", "complete"}

NoDistances == << >>    \* new Map()

DijkstraInit ==
    /\ distances = NoDistances
    /\ visited = << >>
    /\ unvisited = << >>
    /\ currentNode = NULL
    /\ algorithmSteps = << >>
    /\ currentStepIndex = 0
    /\ isRunning = FALSE
    /\ dijkstraTimers = << >>

FloydInit ==
    /\ floydMatrix = NoMatrix
    /\ floydSteps = << >>
    /\ floydStepIndex = 0
    /\ floydIsRunning = FALSE
    /\ floydTimers = << >>

APSPInit ==
    /\ johnsonMatrix = NoMatrix
    /\ slowAPSPMatrix = NoMatrix
    /\ fasterAPSPMatrix = NoMatrix

Init ==
    /\ nodes \in NodeSeqs
    /\ edges \in EdgeSeqs
    /\ DijkstraInit
    /\ FloydInit
    /\ APSPInit

(***************************************************************************)
(* useDijkstra: runDijkstra, its timer callback, nextStep, reset.  Each    *)
(* handler is a function from the hook's state (a view record) to the      *)
(* state after it, and an action that installs that state.                 *)
(***************************************************************************)
DijkstraView ==
    [distances |-> distances, unvisited |-> unvisited, visited |-> visited,
     currentNode |-> currentNode, algorithmSteps |-> algorithmSteps,
     currentStepIndex |-> currentStepIndex, isRunning |-> isRunning]

SetDijkstraView(v) ==
    /\ distances' = v.distances
    /\ unvisited' = v.unvisited
    /\ visited' = v.visited
    /\ currentNode' = v.currentNode
    /\ algorithmSteps' = v.algorithmSteps
    /\ currentStepIndex' = v.currentStepIndex
    /\ isRunning' = v.isRunning

\* The state set by the synchronous part of runDijkstra(startNode, mode).
AfterRunDijkstra(ns, es, startNode, mode) ==
    [distances |-> InitialDistances(ns, startNode),
     unvisited |-> ns,
     visited |-> << >>,
     currentNode |-> NULL,
     algorithmSteps |-> generateDijkstraSteps(ns, es, startNode),
     currentStepIndex |-> 0,
     isRunning |-> (mode = "complete")]

\* Mutant: the callback leaves the step index one short of the end.
AfterDijkstraTimeoutOneShort(v, steps) ==
    IF Len(steps) > 0
    THEN LET finalStep == steps[Len(steps)]
         IN  [v EXCEPT !.distances = finalStep.distances,
                       !.unvisited = finalStep.unvisited,
                       !.visited = finalStep.visited,
                       !.currentNode = finalStep.node,
                       !.currentStepIndex = Len(steps) - 1,
                       !.isRunning = FALSE]
    ELSE [v EXCEPT !.isRunning = FALSE]

\* The callback of setTimeout in runDijkstra; steps is the closure's array.
AfterDijkstraTimeout(v, steps) ==
    IF Len(steps) > 0
    THEN LET finalStep == steps[Len(steps)]
         IN  [v EXCEPT !.distances = finalStep.distances,
                       !.unvisited = finalStep.unvisited,
                       !.visited = finalStep.visited,
                       !.currentNode = finalStep.node,
                       !.currentStepIndex = Len(steps),
                       !.isRunning = FALSE]
    ELSE [v EXCEPT !.isRunning = FALSE]

AfterDijkstraNextStep(v) ==
    IF v.currentStepIndex < Len(v.algorithmSteps)
    THEN LET step == v.algorithmSteps[v.currentStepIndex + 1]
         IN  [v EXCEPT !.distances = step.distances,
                       !.unvisited = step.unvisited,
                       !.visited = step.visited,
                       !.currentNode = step.node,
                       !.currentStepIndex = v.currentStepIndex + 1]
    ELSE v

AfterDijkstraReset ==
    [distances |-> NoDistances, unvisited |-> << >>, visited |-> << >>,
     currentNode |-> NULL, algorithmSteps |-> << >>,
     currentStepIndex |-> 0, isRunning |-> FALSE]

RunDijkstra(startNode, mode) ==
    LET v == AfterRunDijkstra(nodes, edges, startNode, mode)
    IN  /\ mode = "complete" => Len(dijkstraTimers) < MaxPending
        /\ SetDijkstraView(v)
        /\ dijkstraTimers' = IF mode = "complete"
                             THEN Append(dijkstraTimers, v.algorithmSteps)
                             ELSE dijkstraTimers
        /\ UNCHANGED <<graphVars, floydVars, apspVars>>

\* Timers of equal delay fire in the order they were set.
DijkstraTimer ==
    /\ dijkstraTimers # << >>
    /\ SetDijkstraView(AfterDijkstraTimeout(DijkstraView, Head(dijkstraTimers)))
    /\ dijkstraTimers' = Tail(dijkstraTimers)
    /\ UNCHANGED <<graphVars, floydVars, apspVars>>

DijkstraNextStep ==
    /\ SetDijkstraView(AfterDijkstraNextStep(DijkstraView))
    /\ UNCHANGED <<dijkstraTimers, graphVars, floydVars, apspVars>>

DijkstraReset ==
    /\ SetDijkstraView(AfterDijkstraReset)
    /\ UNCHANGED <<dijkstraTimers, graphVars, floydVars, apspVars>>

(***************************************************************************)
(* useFloydWarshall: runFloydWarshall, its timer callback, nextStep,       *)
(* reset.                                                                  *)
(***************************************************************************)
FloydView ==
    [matrix |-> floydMatrix, algorithmSteps |-> floydSteps,
     currentStepIndex |-> floydStepIndex, isRunning |-> floydIsRunning]

SetFloydView(v) ==
    /\ floydMatrix' = v.matrix
    /\ floydSteps' = v.algorithmSteps
    /\ floydStepIndex' = v.currentStepIndex
    /\ floydIsRunning' = v.isRunning

\* The state set by the synchronous part of runFloydWarshall(mode) on a
\* node map that is not empty.
AfterRunFloydWarshall(v, ns, es, mode) ==
    LET steps == generateFloydWarshallSteps(ns, es)
    IN  [matrix |-> IF mode = "step" /\ Len(steps) > 0
                    THEN steps[1].matrix ELSE v.matrix,
         algorithmSteps |-> steps,
         currentStepIndex |-> 0,
         isRunning |-> (mode = "complete")]

AfterFloydTimeout(v, steps) ==
    IF Len(steps) > 0
    THEN [v EXCEPT !.matrix = steps[Len(steps)].matrix,
                   !.currentStepIndex = Len(steps),
                   !.isRunning = FALSE]
    ELSE [v EXCEPT !.isRunning = FALSE]

\* Mutant: the snapshot applied is the one before the current index.
AfterFloydNextStepStale(v) ==
    IF v.currentStepIndex < Len(v.algorithmSteps)
    THEN [v EXCEPT !.matrix = v.algorithmSteps[IF v.currentStepIndex = 0 THEN 1
                                               ELSE v.currentStepIndex].matrix,
                   !.currentStepIndex = v.currentStepIndex + 1]
    ELSE v

AfterFloydNextStep(v) ==
    IF v.currentStepIndex < Len(v.algorithmSteps)
    THEN [v EXCEPT !.matrix = v.algorithmSteps[v.currentStepIndex + 1].matrix,
                   !.currentStepIndex = v.currentStepIndex + 1]
    ELSE v

AfterFloydReset ==
    [matrix |-> NoMatrix, algorithmSteps |-> << >>,
     currentStepIndex |-> 0, isRunning |-> FALSE]

RunFloydWarshall(mode) ==
    IF Len(nodes) = 0 THEN UNCHANGED vars
    ELSE LET v == AfterRunFloydWarshall(FloydView, nodes, edges, mode)
         IN  /\ mode = "complete" => Len(floydTimers) < MaxPending
             /\ SetFloydView(v)
             /\ floydTimers' = IF mode = "complete"
                               THEN Append(floydTimers, v.algorithmSteps)
                               ELSE floydTimers
             /\ UNCHANGED <<graphVars, dijkstraVars, apspVars>>

FloydTimer ==
    /\ floydTimers # << >>
    /\ SetFloydView(AfterFloydTimeout(FloydView, Head(floydTimers)))
    /\ floydTimers' = Tail(floydTimers)
    /\ UNCHANGED <<graphVars, dijkstraVars, apspVars>>

FloydNextStep ==
    /\ SetFloydView(AfterFloydNextStep(FloydView))
    /\ UNCHANGED <<floydTimers, graphVars, dijkstraVars, apspVars>>

FloydReset ==
    /\ SetFloydView(AfterFloydReset)
    /\ UNCHANGED <<floydTimers, graphVars, dijkstraVars, apspVars>>

(***************************************************************************)
(* useJohnson.runJohnson, useSlowAPSP.runSlowAPSP,                         *)
(* useFasterAPSP.runFasterAPSP: no state change on an empty node map,      *)
(* else the matrix is stored.                                              *)
(***************************************************************************)
RunJohnson ==
    IF Len(nodes) = 0 THEN UNCHANGED vars
    ELSE /\ johnsonMatrix' = JohnsonMatrix(nodes, edges)
         /\ UNCHANGED <<slowAPSPMatrix, fasterAPSPMatrix,
                        graphVars, dijkstraVars, floydVars>>

RunSlowAPSP ==
    IF Len(nodes) = 0 THEN UNCHANGED vars
    ELSE /\ slowAPSPMatrix' = SlowAPSPMatrix(nodes, edges)
         /\ UNCHANGED <<johnsonMatrix, fasterAPSPMatrix,
                        graphVars, dijkstraVars, floydVars>>

RunFasterAPSP ==
    IF Len(nodes) = 0 THEN UNCHANGED vars
    ELSE /\ fasterAPSPMatrix' = FasterAPSPMatrix(nodes, edges)
         /\ UNCHANGED <<johnsonMatrix, slowAPSPMatrix,
                        graphVars, dijkstraVars, floydVars>>

(***************************************************************************)
(* Specifications, all over the same graphs.  The hooks do not read each   *)
(* other's state, so each family is explored on its own: the two stepping  *)
(* hooks with every handler, the stepping sessions (a step-mode run and    *)
(* nextStep) that replay a step sequence, the complete-mode runs of both   *)
(* stepping hooks, and the three matrix-only hooks.                        *)
(***************************************************************************)
NextDijkstra ==
    \/ \E startNode \in NodeIds, mode \in Modes : RunDijkstra(startNode, mode)
    \/ DijkstraTimer
    \/ DijkstraNextStep
    \/ DijkstraReset

NextFloyd ==
    \/ \E mode \in Modes : RunFloydWarshall(mode)
    \/ FloydTimer
    \/ FloydNextStep
    \/ FloydReset

NextDijkstraReplay ==
    \/ \E startNode \in NodeIds : RunDijkstra(startNode, "step")
    \/ DijkstraNextStep

NextFloydReplay ==
    \/ RunFloydWarshall("step")
    \/ FloydNextStep

\* Stepping sessions of both stepping hooks.
NextStepping ==
    \/ NextDijkstraReplay
    \/ NextFloydReplay

NextComplete ==
    \/ \E startNode \in NodeIds : RunDijkstra(startNode, "complete")
    \/ DijkstraTimer
    \/ RunFloydWarshall("complete")
    \/ FloydTimer

\* runJohnson beside stepping sessions of Dijkstra.
NextJohnsonReplay ==
    \/ RunJohnson
    \/ NextDijkstraReplay

NextAPSP ==
    \/ RunJohnson
    \/ RunSlowAPSP
    \/ RunFasterAPSP

SpecDijkstra       == Init /\ [][NextDijkstra]_vars
SpecFloyd          == Init /\ [][NextFloyd]_vars
SpecDijkstraReplay == Init /\ [][NextDijkstraReplay]_vars
SpecFloydReplay    == Init /\ [][NextFloydReplay]_vars
SpecStepping       == Init /\ [][NextStepping]_vars
SpecComplete       == Init /\ [][NextComplete]_vars
SpecAPSP           == Init /\ [][NextAPSP]_vars
SpecJohnsonReplay  == Init /\ [][NextJohnsonReplay]_vars

Next == NextDijkstra \/ NextFloyd \/ NextAPSP
Spec == Init /\ [][Next]_vars

(***************************************************************************)
(* Named graphs, as parseEdges builds them from "A->B = 4" lines over a    *)
(* node map filled by addNode: a three-node graph with a detour, two       *)
(* nodes without an edge, and a four-node cycle.  The node map is in any   *)
(* insertion order; the first graph's edge list is in any order too.       *)
(***************************************************************************)
Edge(f, t, w) == [from |-> f, to |-> t, weight |-> w]

Orderings(S) ==
    {q \in SeqsUpTo(S, Cardinality(S)) : NoRepeat(q) /\ Len(q) = Cardinality(S)}

DetourEdges == <<Edge("A", "B", 4), Edge("B", "C", 2), Edge("A", "C", 10)>>

CycleEdges ==
    <<Edge("A", "B", 1), Edge("B", "C", 1), Edge("C", "D", 1), Edge("D", "A", 1)>>

NamedGraphs ==
    ({[ns |-> ns, es |-> es] : ns \in Orderings({"A", "B", "C"}),
                               es \in Orderings(Range(DetourEdges))})
        \cup {[ns |-> ns, es |-> << >>] : ns \in Orderings({"A", "B"})}
        \cup {[ns |-> ns, es |-> CycleEdges] : ns \in Orderings({"A", "B", "C", "D"})}

InitNamed ==
    /\ \E g \in NamedGraphs : nodes = g.ns /\ edges = g.es
    /\ DijkstraInit
    /\ FloydInit
    /\ APSPInit

\* A stepping session of Dijkstra, a complete run of Floyd-Warshall and
\* the three matrix-only engines.
NextNamed ==
    \/ NextDijkstraReplay
    \/ RunFloydWarshall("complete")
    \/ FloydTimer
    \/ NextAPSP

SpecNamed == InitNamed /\ [][NextNamed]_vars

(***************************************************************************)
(* useGraph: the handlers that change the node map and the edge list.      *)
(* Only handleClearGraph touches the state of an engine hook.              *)
(***************************************************************************)
\* addNode(x, y, customName): an empty customName gives the letter after
\* the current size; Map.set on an existing key keeps the key's place.
AfterAddNode(ns, customName) ==
    LET name == IF customName # "" THEN customName ELSE NodeNames[Len(ns) + 1]
    IN  IF name \in Range(ns) THEN ns ELSE Append(ns, name)

AfterDeleteNodeEdges(es, nodeName) ==
    SelectSeq(es, LAMBDA edge : edge.from # nodeName /\ edge.to # nodeName)

AfterAddEdge(es, from, to, weight, isDirected) ==
    LET newEdges == Append(es, Edge(from, to, weight))
    IN  IF ~isDirected /\ ~(\E e \in Range(es) : e.from = to /\ e.to = from)
        THEN Append(newEdges, Edge(to, from, weight))
        ELSE newEdges

AfterUpdateEdge(es, from, to, newWeight) ==
    [p \in DOMAIN es |->
        IF es[p].from = from /\ es[p].to = to
        THEN [es[p] EXCEPT !.weight = newWeight]
        ELSE es[p]]

AfterDeleteEdge(es, from, to) ==
    SelectSeq(es, LAMBDA edge : /\ ~(edge.from = from /\ edge.to = to)
                                /\ ~(edge.from = to /\ edge.to = from))

AddNode(customName) ==
    /\ customName = "" => Len(nodes) < MaxNodes
    /\ nodes' = AfterAddNode(nodes, customName)
    /\ UNCHANGED <<edges, dijkstraVars, floydVars, apspVars>>

DeleteNode(nodeName) ==
    /\ nodes' = SetDelete(nodes, nodeName)
    /\ edges' = AfterDeleteNodeEdges(edges, nodeName)
    /\ UNCHANGED <<dijkstraVars, floydVars, apspVars>>

AddEdge(from, to, weight, isDirected) ==
    /\ Len(AfterAddEdge(edges, from, to, weight, isDirected)) <= MaxEdges
    /\ edges' = AfterAddEdge(edges, from, to, weight, isDirected)
    /\ UNCHANGED <<nodes, dijkstraVars, floydVars, apspVars>>

UpdateEdge(from, to, newWeight) ==
    /\ edges' = AfterUpdateEdge(edges, from, to, newWeight)
    /\ UNCHANGED <<nodes, dijkstraVars, floydVars, apspVars>>

DeleteEdge(from, to) ==
    /\ edges' = AfterDeleteEdge(edges, from, to)
    /\ UNCHANGED <<nodes, dijkstraVars, floydVars, apspVars>>

\* GraphVisualizer.handleClearGraph: clearGraph() and resetAll(), which
\* resets the five hooks; pending timers are not cancelled.
HandleClearGraph ==
    /\ nodes' = << >>
    /\ edges' = << >>
    /\ SetDijkstraView(AfterDijkstraReset)
    /\ SetFloydView(AfterFloydReset)
    /\ johnsonMatrix' = NoMatrix
    /\ slowAPSPMatrix' = NoMatrix
    /\ fasterAPSPMatrix' = NoMatrix
    /\ UNCHANGED <<dijkstraTimers, floydTimers>>

\* Weights typed into the edge dialogs.
EditWeights == {1, 2}

\* The editing handlers as GraphVisualizer calls them: nodes get the next
\* letter, edges join nodes of the map.
NextEdit ==
    \/ AddNode("")
    \/ \E nodeName \in Range(nodes) : DeleteNode(nodeName)
    \/ \E from, to \in Range(nodes), weight \in EditWeights, isDirected \in BOOLEAN :
           AddEdge(from, to, weight, isDirected)
    \/ \E e \in Range(edges), newWeight \in EditWeights :
           UpdateEdge(e.from, e.to, newWeight)
    \/ \E e \in Range(edges) : DeleteEdge(e.from, e.to)
    \/ HandleClearGraph

\* The state after construction: an empty graph and empty hooks.
InitEmpty ==
    /\ nodes = << >>
    /\ edges = << >>
    /\ DijkstraInit
    /\ FloydInit
    /\ APSPInit

\* Editing the graph between stepping runs of Dijkstra.
NextEditAndRun ==
    \/ NextEdit
    \/ \E startNode \in Range(nodes) : RunDijkstra(startNode, "step")

SpecEditAndRun == InitEmpty /\ [][NextEditAndRun]_vars

(***************************************************************************)
(* Reference definitions used by the properties: shortest distances by     *)
(* repeated full relaxation over the edge list (Bellman-Ford), written     *)
(* without any of the engines' operators.                                  *)
(***************************************************************************)
SetMin(S) == CHOOSE x \in S : \A y \in S : x <= y

KnownEdges(ns, es) ==
    {e \in Range(es) : e.from \in Range(ns) /\ e.to \in Range(ns)}

\* One full relaxation of every edge against the distances d.
RefRelaxAll(ns, es, d) ==
    [x \in Range(ns) |->
        SetMin({d[x]} \cup {d[e.from] + e.weight :
                    e \in {f \in KnownEdges(ns, es) :
                               f.to = x /\ d[f.from] # Infinity}})]

RECURSIVE RefIterate(_, _, _, _)
RefIterate(ns, es, d, rounds) ==
    IF rounds = 0 THEN d
    ELSE RefIterate(ns, es, RefRelaxAll(ns, es, d), rounds - 1)

\* Distances from source after |V| full relaxations; Infinity = no path.
RefDistances(ns, es, source) ==
    RefIterate(ns, es,
               [x \in Range(ns) |-> IF x = source THEN 0 ELSE Infinity],
               Len(ns))

\* The reference all-pairs matrix in sorted node order, INF = no path.
RefMatrix(ns, es) ==
    LET nodeList == SortedNodeList(ns)
    IN  [i \in 1..Len(nodeList) |->
            [j \in 1..Len(nodeList) |->
                LET d == RefDistances(ns, es, nodeList[i])[nodeList[j]]
                IN  IF d = Infinity THEN INF ELSE d]]

\* TRUE iff t can be reached from s along edges of the graph.
Reachable(ns, es, s, t) == RefDistances(ns, es, s)[t] # Infinity

NonNegativeWeights(es) == \A e \in Range(es) : e.weight >= 0

NoSelfLoop(es) == \A e \in Range(es) : e.from # e.to

NoParallelEdges(es) ==
    \A a, b \in DOMAIN es :
        a # b => ~(es[a].from = es[b].from /\ es[a].to = es[b].to)

\* One more relaxation after |V| of them lowers nothing, from any source.
NoNegativeCycle(ns, es) ==
    \A s \in Range(ns) :
        RefRelaxAll(ns, es, RefDistances(ns, es, s)) = RefDistances(ns, es, s)

\* The matrix of the last step of a Floyd-Warshall step sequence.
LastMatrix(steps) == steps[Len(steps)].matrix

\* The matrices the engines have produced in this state.
ProducedMatrices ==
    {m \in {johnsonMatrix, slowAPSPMatrix, fasterAPSPMatrix} : m # NoMatrix}
        \cup {floydSteps[p].matrix : p \in DOMAIN floydSteps}

(***************************************************************************)
(* C1.  For non-negative weights, the matrices of Floyd-Warshall (last     *)
(* step of generateFloydWarshallSteps), runJohnson, runSlowAPSP and        *)
(* runFasterAPSP are identical cell for cell.                              *)
(***************************************************************************)
C1_EnginesAgree ==
    (NonNegativeWeights(edges) /\ Len(nodes) > 0) =>
        LET fw == LastMatrix(generateFloydWarshallSteps(nodes, edges))
        IN  /\ johnsonMatrix # NoMatrix => johnsonMatrix = fw
            /\ slowAPSPMatrix # NoMatrix => slowAPSPMatrix = fw
            /\ fasterAPSPMatrix # NoMatrix => fasterAPSPMatrix = fw

(***************************************************************************)
(* C5.  Every matrix produced by any engine has matrix[i][i] = 0 for       *)
(* every index i.  Stated here for the edge lists of tested usage, those   *)
(* with non-negative weights, which the claim covers.                      *)
(***************************************************************************)
C5_DiagonalZero ==
    NonNegativeWeights(edges) =>
        \A m \in ProducedMatrices : \A i \in DOMAIN m : m[i][i] = 0

\* The final matrices the four all-pairs engines hold or would return.
FinalMatrices ==
    {m \in {johnsonMatrix, slowAPSPMatrix, fasterAPSPMatrix} : m # NoMatrix}
        \cup (IF floydSteps # << >> THEN {LastMatrix(floydSteps)} ELSE {})

\* Weights far below INF: no sum of |V| of them comes near the sentinel.
SmallWeights(es) == \A e \in Range(es) : e.weight \in -2..2

(***************************************************************************)
(* C6.  In every final matrix on non-negative weights an off-diagonal      *)
(* cell is INF exactly when no path exists and otherwise holds the true    *)
(* shortest distance.  Stated for edge lists without parallel edges, so    *)
(* that the distance does not depend on which parallel edge counts.        *)
(***************************************************************************)
C6_InfIffNoPath ==
    (NonNegativeWeights(edges) /\ NoParallelEdges(edges)) =>
        \A m \in FinalMatrices :
            LET nodeList == SortedNodeList(nodes)
            IN  \A i, j \in DOMAIN m :
                    i # j =>
                        LET d == RefDistances(nodes, edges, nodeList[i])[nodeList[j]]
                        IN  /\ (m[i][j] = INF) <=> (d = Infinity)
                            /\ d # Infinity => m[i][j] = d

(***************************************************************************)
(* C7.  With no negative cycle (negative weights allowed) the matrix of    *)
(* the last Floyd-Warshall step is the true all-pairs shortest distances,  *)
(* INF exactly where the target is unreachable.  Stated for small weights  *)
(* and edge lists without self-loops and parallel edges, which the claim   *)
(* covers.                                                                 *)
(***************************************************************************)
C7_FloydTrueDistances ==
    (/\ floydSteps # << >>
     /\ SmallWeights(edges)
     /\ NoSelfLoop(edges)
     /\ NoParallelEdges(edges)
     /\ NoNegativeCycle(nodes, edges)) =>
        LastMatrix(floydSteps) = RefMatrix(nodes, edges)

\* The state in which runDijkstra(s, .) has been called on this graph and
\* every step of its sequence has been applied by nextStep.
ReplayedAll(s) ==
    /\ algorithmSteps = generateDijkstraSteps(nodes, edges, s)
    /\ currentStepIndex = Len(algorithmSteps)

(***************************************************************************)
(* C3.  After the last step has been applied, the visible distances and    *)
(* the visible visited set equal those of Dijkstra run directly to         *)
(* completion (dijkstraSingleSource): the visited set is the set of nodes  *)
(* the direct run has taken out of unvisited.                              *)
(***************************************************************************)
C3_FinalStateEqualsDirectRun ==
    \A s \in Range(nodes) :
        ReplayedAll(s) =>
            LET direct == SingleSourceLoop(buildAdjacencyList(nodes, edges),
                                           InitialDistances(nodes, s), nodes)
            IN  /\ distances = direct.distances
                /\ Range(visited) = Range(nodes) \ Range(direct.unvisited)

(***************************************************************************)
(* C2.  For non-negative weights and a source in the node set, applying    *)
(* every step of generateDijkstraSteps(source) in order leaves a distances *)
(* mapping equal to the reference shortest distances from the source       *)
(* (repeated full relaxation), Infinity marking the unreachable nodes.     *)
(***************************************************************************)
C2_ReplayEqualsReference ==
    NonNegativeWeights(edges) =>
        \A s \in Range(nodes) :
            ReplayedAll(s) => distances = RefDistances(nodes, edges, s)

\* A replay that is complete, on a graph where some distance was improved
\* from a finite value and some node stays unreachable.
C2_Witness ==
    /\ NonNegativeWeights(edges)
    /\ \E s \in Range(nodes) : ReplayedAll(s)
    /\ \E p \in DOMAIN algorithmSteps :
           /\ algorithmSteps[p].type = "update"
           /\ algorithmSteps[p].oldDistance # Infinity
    /\ \E x \in Range(nodes) : distances[x] = Infinity

(***************************************************************************)
(* C9.  For every node and every pair of consecutive steps of the Dijkstra *)
(* step sequence, the distance recorded in the later step is at most the   *)
(* distance recorded in the earlier one.                                   *)
(***************************************************************************)
C9_DistancesNeverIncrease ==
    \A p \in DOMAIN algorithmSteps :
        p + 1 \in DOMAIN algorithmSteps =>
            \A x \in Range(nodes) :
                algorithmSteps[p + 1].distances[x] <= algorithmSteps[p].distances[x]

\* A sequence in which a distance falls from one finite value to another.
C9_Witness ==
    \E p \in DOMAIN algorithmSteps :
        /\ p + 1 \in DOMAIN algorithmSteps
        /\ \E x \in Range(nodes) :
               /\ algorithmSteps[p].distances[x] # Infinity
               /\ algorithmSteps[p + 1].distances[x] < algorithmSteps[p].distances[x]

(***************************************************************************)
(* C10.  Once a node is in the visited set of some Dijkstra step, its      *)
(* recorded distance is the same in every later step, for any edge         *)
(* weights.                                                                *)
(***************************************************************************)
C10_VisitedDistanceFinal ==
    \A p, q \in DOMAIN algorithmSteps :
        p < q =>
            \A x \in Range(algorithmSteps[p].visited) :
                algorithmSteps[q].distances[x] = algorithmSteps[p].distances[x]

\* A later selected node has an edge into a visited node that would lower
\* the visited node's distance (a negative weight).
C10_Witness ==
    \E p, q \in DOMAIN algorithmSteps :
        /\ p < q
        /\ algorithmSteps[q].type = "select"
        /\ \E e \in Range(edges) :
               /\ e.from = algorithmSteps[q].node
               /\ e.to \in Range(algorithmSteps[p].visited)
               /\ algorithmSteps[q].distances[e.from] + e.weight
                      < algorithmSteps[q].distances[e.to]

\* No triple (k, i, j) relaxes on m: a further relaxation pass changes no
\* cell, since its first change would need a triple that relaxes on m.
NoRelaxationLeft(m) ==
    \A k, i, j \in DOMAIN m : ~(m[i][k] + m[k][j] < m[i][j])

RECURSIVE NegativeTotal(_, _)
NegativeTotal(es, p) ==
    IF p > Len(es) THEN 0
    ELSE (IF es[p].weight < 0 THEN -es[p].weight ELSE 0) + NegativeTotal(es, p + 1)

C8_FixedPointNoNegativeCycle ==
    (floydSteps # << >> /\ NoNegativeCycle(nodes, edges)) =>
        NoRelaxationLeft(LastMatrix(floydSteps))

RECURSIVE DijkstraReplayAll(_)
DijkstraReplayAll(v) ==
    IF v.currentStepIndex < Len(v.algorithmSteps)
    THEN DijkstraReplayAll(AfterDijkstraNextStep(v))
    ELSE v

RECURSIVE FloydReplayAll(_)
FloydReplayAll(v) ==
    IF v.currentStepIndex < Len(v.algorithmSteps)
    THEN FloydReplayAll(AfterFloydNextStep(v))
    ELSE v

\* The hook is as runDijkstra(s, 'complete') has just left it, and the only
\* pending timer is the one of that run.
FreshCompleteDijkstra(s) ==
    /\ dijkstraTimers = <<algorithmSteps>>
    /\ isRunning
    /\ DijkstraView = AfterRunDijkstra(nodes, edges, s, "complete")

\* The same for runFloydWarshall('complete').
FreshCompleteFloyd ==
    /\ Len(nodes) > 0
    /\ floydTimers = <<floydSteps>>
    /\ floydStepIndex = 0
    /\ floydIsRunning
    /\ floydSteps = generateFloydWarshallSteps(nodes, edges)

(***************************************************************************)
(* C4.  Step-by-step and all-at-once runs give identical results: when     *)
(* the delay of a 'complete' run fires, the hook's state becomes the state *)
(* that a 'step' run followed by nextStep calls until the steps are        *)
(* exhausted reaches: for Dijkstra the distances, visited, unvisited,      *)
(* current node and step index, for Floyd-Warshall the matrix and step     *)
(* index.                                                                  *)
(***************************************************************************)
C4_CompleteEqualsStepwise ==
    [][/\ \A s \in NodeIds :
              (dijkstraTimers' = << >> /\ FreshCompleteDijkstra(s)) =>
                  DijkstraView' =
                      DijkstraReplayAll(AfterRunDijkstra(nodes, edges, s, "step"))
       /\ (floydTimers' = << >> /\ FreshCompleteFloyd) =>
              FloydView' =
                  FloydReplayAll(AfterRunFloydWarshall(FloydView, nodes, edges, "step"))
      ]_vars

\* Both delays have fired, each on a sequence with updates in it.
C4_Witness ==
    /\ dijkstraTimers = << >> /\ floydTimers = << >>
    /\ ~isRunning /\ ~floydIsRunning
    /\ currentStepIndex = Len(algorithmSteps)
    /\ \E p \in DOMAIN algorithmSteps : algorithmSteps[p].type = "update"
    /\ floydStepIndex = Len(floydSteps)
    /\ \E p \in DOMAIN floydSteps : floydSteps[p].updated

\* Every distances mapping the Dijkstra hook exposes in this state: the
\* visible one and the snapshot of every step.
ExposedDistances ==
    {distances} \cup {algorithmSteps[p].distances : p \in DOMAIN algorithmSteps}

(***************************************************************************)
(* C11.  The Dijkstra engine marks "unreachable / not yet reached" with    *)
(* the INF sentinel of the matrices (999999): right after a run every node *)
(* but the source is at INF, and no exposed distances mapping, visible or  *)
(* in a step snapshot, holds another special value for such a node.        *)
(***************************************************************************)
C11_DijkstraUsesINF ==
    /\ \A d \in ExposedDistances : \A x \in DOMAIN d : d[x] # Infinity
    /\ (distances # NoDistances /\ currentStepIndex = 0) =>
           \E s \in NodeIds : \A x \in DOMAIN distances : x # s => distances[x] = INF

(***************************************************************************)
(* C12.  A nextStep call with currentStepIndex below the number of steps   *)
(* applies exactly the snapshot algorithmSteps[currentStepIndex] (0-based) *)
(* as the visible state and raises currentStepIndex by exactly 1; with     *)
(* currentStepIndex equal to the number of steps it changes nothing.  For  *)
(* the Dijkstra hook and for the Floyd-Warshall hook.                      *)
(***************************************************************************)
C12_NextStepExact ==
    [][/\ DijkstraNextStep =>
              IF currentStepIndex < Len(algorithmSteps)
              THEN LET step == algorithmSteps[currentStepIndex + 1]
                   IN  /\ distances' = step.distances
                       /\ unvisited' = step.unvisited
                       /\ visited' = step.visited
                       /\ currentNode' = step.node
                       /\ currentStepIndex' = currentStepIndex + 1
                       /\ UNCHANGED <<algorithmSteps, isRunning>>
              ELSE UNCHANGED vars
       /\ FloydNextStep =>
              IF floydStepIndex < Len(floydSteps)
              THEN /\ floydMatrix' = floydSteps[floydStepIndex + 1].matrix
                   /\ floydStepIndex' = floydStepIndex + 1
                   /\ UNCHANGED <<floydSteps, floydIsRunning>>
              ELSE UNCHANGED vars
      ]_vars

\* nextStep has run to the end of a Dijkstra sequence with an update in it
\* and stands in the middle of a Floyd-Warshall sequence, past an update.
C12_Witness ==
    /\ currentStepIndex = Len(algorithmSteps)
    /\ \E p \in DOMAIN algorithmSteps : algorithmSteps[p].type = "update"
    /\ floydStepIndex < Len(floydSteps)
    /\ floydStepIndex >= 2
    /\ floydSteps[floydStepIndex].updated
    /\ floydMatrix = floydSteps[floydStepIndex].matrix

\* The visible state a run starts from when no node is the source: every
\* node unvisited and without a distance, no current node, no steps.
MissingSourceState ==
    /\ algorithmSteps = << >>
    /\ currentStepIndex = 0
    /\ DOMAIN distances = Range(nodes)
    /\ \A x \in Range(nodes) : distances[x] = Infinity
    /\ unvisited = nodes
    /\ visited = << >>
    /\ currentNode = NULL

(***************************************************************************)
(* C13.  runDijkstra with a source that is not in the node set yields an   *)
(* empty step sequence (no select, no update) in both modes, and the       *)
(* visible state is the run's initial state with step index 0; nextStep    *)
(* and the delayed callback of that run leave it there.                    *)
(***************************************************************************)
C13_MissingSource ==
    [][/\ \A s \in NodeIds \ Range(nodes) : \A mode \in Modes :
              RunDijkstra(s, mode) => MissingSourceState'
       /\ (MissingSourceState /\ DijkstraNextStep) => MissingSourceState'
       /\ (/\ MissingSourceState
           /\ DijkstraTimer
           /\ Head(dijkstraTimers) = algorithmSteps) =>
              MissingSourceState' /\ ~isRunning'
      ]_vars

\* A run with a missing source has left its state on a graph that has
\* nodes and edges, and no delay is pending.
C13_Witness ==
    /\ MissingSourceState
    /\ Len(nodes) >= 2
    /\ Len(edges) >= 1
    /\ dijkstraTimers = << >>
    /\ ~isRunning

(***************************************************************************)
(* C14.  On a graph with zero nodes every run operation (runDijkstra,      *)
(* runFloydWarshall, runJohnson, runSlowAPSP, runFasterAPSP) is a no-op:   *)
(* it produces no steps and no matrix and leaves the engine's stored state *)
(* unchanged.                                                              *)
(***************************************************************************)
C14_EmptyGraphNoOp ==
    [][Len(nodes) = 0 =>
           /\ \A s \in NodeIds : \A mode \in Modes :
                  RunDijkstra(s, mode) =>
                      /\ algorithmSteps' = << >>
                      /\ UNCHANGED <<distances, visited, unvisited, currentNode,
                                     algorithmSteps, currentStepIndex, isRunning>>
           /\ \A mode \in Modes :
                  RunFloydWarshall(mode) =>
                      UNCHANGED <<floydMatrix, floydSteps, floydStepIndex,
                                  floydIsRunning>>
           /\ (RunJohnson \/ RunSlowAPSP \/ RunFasterAPSP) => UNCHANGED apspVars
      ]_vars

\* The graph of scenario A, the edges in the order A->B, B->C, A->C.
ScenarioA ==
    /\ Range(nodes) = {"A", "B", "C"}
    /\ edges = DetourEdges

(***************************************************************************)
(* C15.  Scenario A: nodes {A,B,C}, edges A->B=4, B->C=2, A->C=10 in that  *)
(* order.  Dijkstra from A ends with distances {A:0, B:4, C:6}, and the    *)
(* update step that sets C's final distance records oldDistance 10 and     *)
(* newDistance 6.                                                          *)
(***************************************************************************)
C15_ScenarioA ==
    (ScenarioA /\ ReplayedAll("A")) =>
        /\ distances = [x \in {"A", "B", "C"} |->
                           IF x = "A" THEN 0 ELSE IF x = "B" THEN 4 ELSE 6]
        /\ \E p \in DOMAIN algorithmSteps :
               /\ algorithmSteps[p].type = "update"
               /\ algorithmSteps[p].neighbor = "C"
               /\ algorithmSteps[p].newDistance = distances["C"]
        /\ \A p \in DOMAIN algorithmSteps :
               (/\ algorithmSteps[p].type = "update"
                /\ algorithmSteps[p].neighbor = "C"
                /\ algorithmSteps[p].newDistance = distances["C"]) =>
                   /\ algorithmSteps[p].oldDistance = 10
                   /\ algorithmSteps[p].newDistance = 6

\* The replay from A is complete on scenario A, whose node map was filled
\* in an order other than the sorted one.
C15_Witness ==
    /\ ScenarioA
    /\ nodes = <<"C", "A", "B">>
    /\ ReplayedAll("A")
    /\ Len(algorithmSteps) = 6
    /\ distances["C"] = 6

\* The graph of scenario D.
ScenarioD ==
    /\ Range(nodes) = {"A", "B"}
    /\ edges = << >>

\* The matrices the four all-pairs engines expose in this state.
ExposedMatrices ==
    {m \in {johnsonMatrix, slowAPSPMatrix, fasterAPSPMatrix, floydMatrix} :
         m # NoMatrix}
        \cup (IF floydSteps # << >> THEN {LastMatrix(floydSteps)} ELSE {})

(***************************************************************************)
(* C16.  Scenario D: nodes {A,B}, no edges.  Every all-pairs engine        *)
(* returns [[0,INF],[INF,0]]; Dijkstra from A never puts B into a visited  *)
(* set and emits no update step whose neighbor is B.                       *)
(***************************************************************************)
C16_ScenarioD ==
    ScenarioD =>
        /\ \A m \in ExposedMatrices : m = <<<<0, INF>>, <<INF, 0>>>>
        /\ algorithmSteps = generateDijkstraSteps(nodes, edges, "A") =>
               /\ "B" \notin Range(visited)
               /\ \A p \in DOMAIN algorithmSteps :
                      /\ "B" \notin Range(algorithmSteps[p].visited)
                      /\ ~(/\ algorithmSteps[p].type = "update"
                           /\ algorithmSteps[p].neighbor = "B")

\* On scenario D, B added before A: all four engines have a matrix and the
\* replay from A is complete.
C16_Witness ==
    /\ ScenarioD
    /\ nodes = <<"B", "A">>
    /\ johnsonMatrix # NoMatrix
    /\ slowAPSPMatrix # NoMatrix
    /\ fasterAPSPMatrix # NoMatrix
    /\ floydMatrix # NoMatrix
    /\ ReplayedAll("A")
    /\ Len(algorithmSteps) = 1

\* The graph of scenario E.
ScenarioE ==
    /\ Range(nodes) = {"A", "B", "C", "D"}
    /\ edges = CycleEdges

(***************************************************************************)
(* C17.  Scenario E: on the 4-node cycle A->B=1, B->C=1, C->D=1, D->A=1,   *)
(* runSlowAPSP performs exactly 3 rounds and runFasterAPSP exactly 2       *)
(* squarings, and the two returned matrices are identical in every cell.   *)
(***************************************************************************)
C17_ScenarioE ==
    ScenarioE =>
        LET W == InitialMatrix(SortedNodeList(nodes), edges)
            n == Len(nodes)
        IN  /\ slowAPSPMatrix # NoMatrix =>
                   /\ SlowRoundsCounted(W, 1, n, 0).rounds = 3
                   /\ slowAPSPMatrix = SlowRoundsCounted(W, 1, n, 0).matrix
            /\ fasterAPSPMatrix # NoMatrix =>
                   /\ FasterLoopCounted(W, 1, n, 0).squarings = 2
                   /\ fasterAPSPMatrix = FasterLoopCounted(W, 1, n, 0).matrix
            /\ (slowAPSPMatrix # NoMatrix /\ fasterAPSPMatrix # NoMatrix) =>
                   slowAPSPMatrix = fasterAPSPMatrix

\* Both engines have run on scenario E and hold the cycle's distances.
C17_Witness ==
    /\ ScenarioE
    /\ slowAPSPMatrix = <<<<0, 1, 2, 3>>, <<3, 0, 1, 2>>, <<2, 3, 0, 1>>, <<1, 2, 3, 0>>>>
    /\ fasterAPSPMatrix # NoMatrix

\* The hook's state is the one reset() leaves.
DijkstraDiscarded == DijkstraView = AfterDijkstraReset

FloydDiscarded == FloydView = AfterFloydReset

(***************************************************************************)
(* C18.  After reset() of the Dijkstra or the Floyd-Warshall hook the      *)
(* engine's state is discarded (steps empty, step index 0, distances,      *)
(* visited and unvisited empty or matrix null, not running) and stays so   *)
(* until the next run call, also when the delay of a 'complete' run is     *)
(* still pending at the reset.                                             *)
(***************************************************************************)
C18_ResetDiscards ==
    [][/\ DijkstraReset => DijkstraDiscarded'
       /\ (/\ DijkstraDiscarded
           /\ ~(\E s \in NodeIds, mode \in Modes : RunDijkstra(s, mode))) =>
              DijkstraDiscarded'
       /\ FloydReset => FloydDiscarded'
       /\ (/\ FloydDiscarded
           /\ ~(\E mode \in Modes : RunFloydWarshall(mode))) =>
              FloydDiscarded'
      ]_vars

\* The Dijkstra hook's state was computed for the graph of this state.
DijkstraDescribesGraph ==
    /\ DOMAIN distances = Range(nodes)
    /\ unvisited = nodes
    /\ \E s \in Range(nodes) : algorithmSteps = generateDijkstraSteps(nodes, edges, s)

(***************************************************************************)
(* C19.  Engine state does not persist across graph mutations: after the   *)
(* node set or the edge list changes, the steps, step index, distances and *)
(* visited/unvisited sets computed for the earlier graph are no longer     *)
(* exposed, so the visible engine state never describes a graph other than *)
(* the current one: it is discarded, or it is that of a run on the current *)
(* graph.                                                                  *)
(***************************************************************************)
C19_NoStateAcrossMutations ==
    DijkstraDiscarded \/ DijkstraDescribesGraph

(***************************************************************************)
(* C20.  For every source node s, row s (in sorted order) of the matrix    *)
(* returned by runJohnson equals, target by target, the final distances    *)
(* mapping of the step-recording engine generateDijkstraSteps(s), an       *)
(* unreachable target replaced by INF (999999).                            *)
(***************************************************************************)
C20_JohnsonRowsAreDijkstra ==
    johnsonMatrix # NoMatrix =>
        LET nodeList == SortedNodeList(nodes)
        IN  \A s \in Range(nodes) :
                ReplayedAll(s) =>
                    \A t \in Range(nodes) :
                        Cell(johnsonMatrix, IndexOf(nodeList, s), IndexOf(nodeList, t))
                            = IF distances[t] = Infinity THEN INF ELSE distances[t]

\* runJohnson has run and a replay is complete whose sequence improves a
\* finite distance, on a graph with a negative weight and an unreachable
\* node.
C20_Witness ==
    /\ johnsonMatrix # NoMatrix
    /\ \E s \in Range(nodes) : ReplayedAll(s)
    /\ \E p \in DOMAIN algorithmSteps :
           /\ algorithmSteps[p].type = "update"
           /\ algorithmSteps[p].oldDistance # Infinity
    /\ \E e \in Range(edges) : e.weight < 0
    /\ \E x \in Range(nodes) : distances[x] = Infinity

(***************************************************************************)
(* SLOW-APSP rounds.                                                       *)
(***************************************************************************)
\* One round as the formula states it: the running matrix composed against
\* the direct weight matrix W, the previous value kept as a floor.
RoundAgainstW(L, W) ==
    [i \in 1..Len(L) |->
        [j \in 1..Len(L) |->
            SetMin({L[i][j]} \cup {L[i][k] + W[k][j] : k \in 1..Len(L)})]]

\* The running matrix of runSlowAPSP after r rounds.
SlowAfter(W, r) == SlowRounds(W, 1, r + 1)

\* C21: runSlowAPSP executes exactly |V| - 1 rounds, and every round turns
\* the running matrix L into the matrix whose cell [i][j] is
\* min(L[i][j], min over k of L[i][k] + W[k][j]), W being the direct weight
\* matrix built before the first round.
C21_SlowRoundAgainstW ==
    slowAPSPMatrix # NoMatrix =>
        LET W == InitialMatrix(SortedNodeList(nodes), edges)
            n == Len(nodes)
        IN  /\ SlowRoundsCounted(W, 1, n, 0).rounds = n - 1
            /\ slowAPSPMatrix = SlowAfter(W, n - 1)
            /\ \A r \in 0..(n - 2) :
                   SlowAfter(W, r + 1) = RoundAgainstW(SlowAfter(W, r), W)

(***************************************************************************)
(* FASTER-APSP squarings.                                                  *)
(***************************************************************************)
\* The running matrix of runFasterAPSP after s squarings.
RECURSIVE FasterAfter(_, _)
FasterAfter(W, s) ==
    IF s = 0 THEN W
    ELSE matrixMultiply(FasterAfter(W, s - 1), FasterAfter(W, s - 1), INF)

\* C22: no squaring of runFasterAPSP loses a previous value: for every
\* matrix L the run squares and every i, j, the cell [i][j] of
\* matrixMultiply(L, L) is at most L[i][j].
C22_SquaringNeverLoses ==
    fasterAPSPMatrix # NoMatrix =>
        LET W == InitialMatrix(SortedNodeList(nodes), edges)
            n == Len(nodes)
            squarings == FasterLoopCounted(W, 1, n, 0).squarings
        IN  /\ fasterAPSPMatrix = FasterAfter(W, squarings)
            /\ \A s \in 0..(squarings - 1) :
                   \A i, j \in 1..n :
                       FasterAfter(W, s + 1)[i][j] <= FasterAfter(W, s)[i][j]

(***************************************************************************)
(* The three engines that start from the direct weight matrix, each run    *)
(* on a graph of the bounds.                                               *)
(***************************************************************************)
NextMatrixEngines ==
    \/ RunFloydWarshall("step")
    \/ RunSlowAPSP
    \/ RunFasterAPSP

SpecMatrixEngines == Init /\ [][NextMatrixEngines]_vars

\* The weight of the last edge of the list going from f to t.
LastWeight(es, f, t) ==
    LET P == {p \in 1..Len(es) : es[p].from = f /\ es[p].to = t}
    IN  es[CHOOSE p \in P : \A q \in P : q <= p].weight

\* Every cell [from][to] of matrix m that an edge between known nodes
\* addresses holds the weight of the last such edge.
LastWriteWins(m) ==
    LET nodeList == SortedNodeList(nodes)
    IN  \A e \in KnownEdges(nodes, edges) :
            Cell(m, IndexOf(nodeList, e.from), IndexOf(nodeList, e.to))
                = LastWeight(edges, e.from, e.to)

\* C23: when several edges share the ordered pair (from, to), cell
\* [from][to] of the initial weight matrix of every matrix engine holds the
\* weight of the last of them in the edge list: in step 0 of Floyd-Warshall,
\* in the matrix SLOW-APSP and FASTER-APSP start from, and in their results
\* when they run no round (one node) or no squaring (at most two nodes).
C23_LastWriteWins ==
    /\ floydSteps # << >> => LastWriteWins(floydSteps[1].matrix)
    /\ slowAPSPMatrix # NoMatrix =>
           /\ LastWriteWins(SlowAfter(InitialMatrix(SortedNodeList(nodes), edges), 0))
           /\ Len(nodes) = 1 => LastWriteWins(slowAPSPMatrix)
    /\ fasterAPSPMatrix # NoMatrix =>
           /\ LastWriteWins(FasterAfter(InitialMatrix(SortedNodeList(nodes), edges), 0))
           /\ Len(nodes) <= 2 => LastWriteWins(fasterAPSPMatrix)

\* Two edges of different weights share a pair of known nodes, and all
\* three engines have run on that graph (FASTER-APSP without a squaring).
C23_Witness ==
    /\ Len(edges) = 2
    /\ edges[1].from = edges[2].from
    /\ edges[1].to = edges[2].to
    /\ edges[1].from # edges[1].to
    /\ edges[1].weight # edges[2].weight
    /\ {edges[1].from, edges[1].to} = Range(nodes)
    /\ floydSteps # << >>
    /\ slowAPSPMatrix # NoMatrix
    /\ fasterAPSPMatrix # NoMatrix
    /\ Cell(fasterAPSPMatrix, IndexOf(SortedNodeList(nodes), edges[2].from),
            IndexOf(SortedNodeList(nodes), edges[2].to)) = edges[2].weight

(***************************************************************************)
(* The adjacency index of a Dijkstra run.                                  *)
(***************************************************************************)
\* The (to, weight) pairs of the edges leaving x, in edge-list order.
OutgoingPairs(es, x) ==
    LET out == SelectSeq(es, LAMBDA e : e.from = x)
    IN  [p \in 1..Len(out) |-> [node |-> out[p].to, weight |-> out[p].weight]]

\* C24: the adjacency index a run of Dijkstra builds has an entry for every
\* node of the node set, empty for a node without outgoing edge, and the
\* list of each node is exactly the (to, weight) pairs of the edges leaving
\* it, in edge-list order, parallel edges as separate entries.
C24_AdjacencyIndex ==
    algorithmSteps # << >> =>
        LET adjacencyList == buildAdjacencyList(nodes, edges)
        IN  \A x \in Range(nodes) :
                /\ x \in DOMAIN adjacencyList
                /\ adjacencyList[x] = OutgoingPairs(edges, x)
                /\ (\A e \in Range(edges) : e.from # x) => adjacencyList[x] = << >>

\* Dijkstra has run on a graph in which one node has two parallel outgoing
\* edges of different weights and another node has no outgoing edge.
C24_Witness ==
    /\ algorithmSteps # << >>
    /\ Len(edges) = 2
    /\ edges[1].from = edges[2].from
    /\ edges[1].to = edges[2].to
    /\ edges[1].weight # edges[2].weight
    /\ edges[1].from \in Range(nodes)
    /\ edges[1].to \in Range(nodes) \ {edges[1].from}
    /\ Len(buildAdjacencyList(nodes, edges)[edges[1].from]) = 2
    /\ buildAdjacencyList(nodes, edges)[edges[1].to] = << >>

(***************************************************************************)
(* Edges with an endpoint outside the node set.                            *)
(***************************************************************************)
\* The edge list without the edges that have an unknown endpoint.
WithoutUnknownEndpoints(ns, es) ==
    SelectSeq(es, LAMBDA e : e.from \in Range(ns) /\ e.to \in Range(ns))

\* The adjacency index has no key and no neighbor entry for an edge with an
\* unknown endpoint.
AdjacencyIgnoresUnknown ==
    LET adjacencyList == buildAdjacencyList(nodes, edges)
    IN  /\ DOMAIN adjacencyList = Range(nodes)
        /\ adjacencyList =
               buildAdjacencyList(nodes, WithoutUnknownEndpoints(nodes, edges))

\* Every output in the state is the one the engine gives on the graph
\* without the edges that have an unknown endpoint.
OutputsIgnoreUnknown ==
    LET known == WithoutUnknownEndpoints(nodes, edges)
    IN  /\ algorithmSteps # << >> =>
               \E startNode \in Range(nodes) :
                   algorithmSteps = generateDijkstraSteps(nodes, known, startNode)
        /\ floydSteps # << >> =>
               floydSteps = generateFloydWarshallSteps(nodes, known)
        /\ johnsonMatrix # NoMatrix => johnsonMatrix = JohnsonMatrix(nodes, known)
        /\ slowAPSPMatrix # NoMatrix => slowAPSPMatrix = SlowAPSPMatrix(nodes, known)
        /\ fasterAPSPMatrix # NoMatrix =>
               fasterAPSPMatrix = FasterAPSPMatrix(nodes, known)

\* No weight-matrix cell is written for an edge with an unknown endpoint.
MatrixIgnoresUnknown ==
    InitialMatrix(SortedNodeList(nodes), edges)
        = InitialMatrix(SortedNodeList(nodes),
                        WithoutUnknownEndpoints(nodes, edges))

\* C25: an edge with an endpoint outside the node set has no effect: once
\* an engine has run, the adjacency index has no key and no neighbor entry
\* for it, no weight-matrix cell is written for it, and every output equals
\* the output on the graph without that edge.
C25_UnknownEndpointsIgnored ==
    /\ algorithmSteps # << >> \/ johnsonMatrix # NoMatrix => AdjacencyIgnoresUnknown
    /\ MatrixIgnoresUnknown
    /\ OutputsIgnoreUnknown

(***************************************************************************)
(* Shape of the Floyd-Warshall step sequence.                              *)
(***************************************************************************)
\* (k, i, j) of step a comes before (k, i, j) of step b.
LexBefore(a, b) ==
    \/ a.k < b.k
    \/ a.k = b.k /\ a.i < b.i
    \/ a.k = b.k /\ a.i = b.i /\ a.j < b.j

\* Step s[p] is an update of exactly the cell [i][j] of its predecessor's
\* matrix, to pred[i][k] + pred[k][j], which is below pred[i][j].
IsUpdateOfPredecessor(s, p, n) ==
    LET pred == s[p - 1].matrix
        k    == s[p].k + 1
        i    == s[p].i + 1
        j    == s[p].j + 1
    IN  /\ {k, i, j} \subseteq 1..n
        /\ pred[i][k] + pred[k][j] < pred[i][j]
        /\ \A a, b \in 1..n :
               s[p].matrix[a][b] = IF a = i /\ b = j
                                   THEN pred[i][k] + pred[k][j]
                                   ELSE pred[a][b]

\* C26: the Floyd-Warshall steps of a graph with at least one node start
\* with the initial matrix (k = i = j = -1, not an update); the update
\* steps come in strictly increasing (k, i, j) order, each changing exactly
\* the cell [i][j] of its predecessor's matrix to pred[i][k] + pred[k][j],
\* which is less than pred[i][j]; after the updates of each k comes exactly
\* one checkpoint (not an update, matrix equal to its predecessor's), also
\* when no cell changed, so there are |V| + 1 non-update steps and the last
\* step is the checkpoint of the last k.
C26_FloydStepShape ==
    floydSteps # << >> =>
        LET s == floydSteps
            n == Len(nodes)
            plain == {p \in 1..Len(s) : ~s[p].updated}
        IN  /\ s[1] = FloydStep(-1, -1, -1,
                                InitialMatrix(SortedNodeList(nodes), edges), FALSE)
            /\ \A p \in 2..Len(s) :
                   IF s[p].updated
                   THEN /\ IsUpdateOfPredecessor(s, p, n)
                        /\ s[p - 1].k \in {s[p].k, s[p].k - 1}
                        /\ s[p - 1].k = s[p].k - 1 => ~s[p - 1].updated
                        /\ s[p - 1].k = s[p].k => s[p - 1].updated
                   ELSE /\ s[p].i = -1 /\ s[p].j = -1
                        /\ s[p].matrix = s[p - 1].matrix
                        /\ \/ s[p - 1].updated /\ s[p - 1].k = s[p].k
                           \/ ~s[p - 1].updated /\ s[p - 1].k = s[p].k - 1
            /\ \A p, q \in 2..Len(s) :
                   p < q /\ s[p].updated /\ s[q].updated => LexBefore(s[p], s[q])
            /\ \A k \in 0..(n - 1) :
                   Cardinality({p \in plain : s[p].k = k}) = 1
            /\ Cardinality(plain) = n + 1
            /\ s[Len(s)] = FloydStep(n - 1, -1, -1, s[Len(s)].matrix, FALSE)

\* A run on at least two nodes with an update step and with a k that
\* changed no cell, its checkpoint directly following the previous one.
C26_Witness ==
    /\ Len(nodes) >= 2
    /\ floydSteps # << >>
    /\ \E p \in 2..Len(floydSteps) : floydSteps[p].updated
    /\ \E p \in 2..Len(floydSteps) :
           ~floydSteps[p].updated /\ ~floydSteps[p - 1].updated

(***************************************************************************)
(* Selection order of Dijkstra.                                            *)
(***************************************************************************)
\* In select step s the node at position q of the unvisited snapshot is the
\* selected one, no unvisited node is nearer, and every unvisited node in
\* front of it is strictly farther.
FirstMinimumAt(s, q) ==
    /\ s.unvisited[q] = s.node
    /\ \A r \in 1..Len(s.unvisited) :
           /\ s.distances[s.unvisited[r]] >= s.distances[s.node]
           /\ r < q => s.distances[s.unvisited[r]] > s.distances[s.node]

\* C27: every select step of Dijkstra picks the first node, in the
\* insertion order of the unvisited set, whose distance is the minimum over
\* the unvisited nodes; a later node of equal distance never replaces it.
C27_FirstMinimumWins ==
    \A p \in 1..Len(algorithmSteps) :
        algorithmSteps[p].type = "select" =>
            \E q \in 1..Len(algorithmSteps[p].unvisited) :
                FirstMinimumAt(algorithmSteps[p], q)

\* A select step in which a node later in the unvisited set has the same
\* distance as the selected one.
C27_Witness ==
    \E p \in 1..Len(algorithmSteps) :
        LET s == algorithmSteps[p]
        IN  /\ s.type = "select"
            /\ \E q, r \in 1..Len(s.unvisited) :
                   /\ q < r
                   /\ s.unvisited[q] = s.node
                   /\ s.distances[s.unvisited[r]] = s.distances[s.node]

(***************************************************************************)
(* Invariants of a single Dijkstra step.                                   *)
(***************************************************************************)
\* The visited and unvisited snapshots of step s split the node set.
SnapshotsPartitionNodes(s) ==
    /\ Range(s.visited) \cap Range(s.unvisited) = {}
    /\ Range(s.visited) \cup Range(s.unvisited) = Range(nodes)

SelectStepSound(s) ==
    /\ s.distances[s.node] < Infinity
    /\ s.node \in Range(s.unvisited)

UpdateStepSound(s) ==
    /\ s.node \in Range(s.visited)
    /\ s.neighbor \in Range(s.unvisited)
    /\ \E e \in Range(edges) :
           /\ e.from = s.node
           /\ e.to = s.neighbor
           /\ s.newDistance = s.distances[s.node] + e.weight
    /\ s.newDistance < s.oldDistance
    /\ s.distances[s.neighbor] = s.newDistance

\* C28: in every Dijkstra step the visited and unvisited snapshots are
\* disjoint and together are the node set; in a select step the selected
\* node has a finite distance and is still in the unvisited snapshot; in an
\* update step the acting node is visited, the neighbor unvisited,
\* newDistance is the acting node's distance plus the weight of an edge
\* between them, newDistance < oldDistance and the snapshot holds
\* newDistance for the neighbor.
C28_StepInvariants ==
    \A p \in 1..Len(algorithmSteps) :
        LET s == algorithmSteps[p]
        IN  /\ SnapshotsPartitionNodes(s)
            /\ s.type = "select" => SelectStepSound(s)
            /\ s.type = "update" => UpdateStepSound(s)

\* A run with an update step and with a select step taken when a node is
\* already visited.
C28_Witness ==
    /\ \E p \in 1..Len(algorithmSteps) : algorithmSteps[p].type = "update"
    /\ \E p \in 1..Len(algorithmSteps) :
           /\ algorithmSteps[p].type = "select"
           /\ algorithmSteps[p].visited # << >>

(***************************************************************************)
(* The visible state against the step sequence of the most recent run.     *)
(***************************************************************************)
\* The Dijkstra hook shows the snapshot in front of its step index.
DijkstraShowsCurrentStep ==
    /\ currentStepIndex <= Len(algorithmSteps)
    /\ currentStepIndex > 0 =>
           LET s == algorithmSteps[currentStepIndex]
           IN  /\ distances = s.distances
               /\ visited = s.visited
               /\ unvisited = s.unvisited
               /\ currentNode = s.node

\* The Floyd-Warshall hook shows the matrix in front of its step index.
FloydShowsCurrentStep ==
    /\ floydStepIndex <= Len(floydSteps)
    /\ floydStepIndex > 0 => floydMatrix = floydSteps[floydStepIndex].matrix

\* C29: in every reachable state of the Dijkstra hook and of the
\* Floyd-Warshall hook, under any interleaving of run, nextStep, reset and
\* the firing of a pending timer, the step index is at most the number of
\* steps of the most recent run and, when it is above 0, the visible state
\* is the snapshot in front of it: a timer of an earlier run never
\* overwrites the state of a later run or of a reset.
C29_NoStaleTimer ==
    /\ DijkstraShowsCurrentStep
    /\ FloydShowsCurrentStep

(***************************************************************************)
(* Uniqueness of node names under addNode and deleteNode.                  *)
(***************************************************************************)
\* C30: after any sequence of addNode (without a custom name) and
\* deleteNode calls, addNode gives a name that is not yet a key of the node
\* map, so the node count grows by exactly one and every existing node
\* keeps its entry.
C30_AddNodeKeepsUnique ==
    LET name  == NodeNames[Len(nodes) + 1]
        after == AfterAddNode(nodes, "")
    IN  /\ name \notin Range(nodes)
        /\ Len(after) = Len(nodes) + 1
        /\ Range(nodes) \subseteq Range(after)

=============================================================================
